---------------------------- MODULE Spec2Model ----------------------------
(***************************************************************************)
(* Model of doto2pinguin.py: PingThread, PingStatistics, QServerState and  *)
(* DotoPinguin.  Records model the Python objects, operators model the     *)
(* methods, actions model the Qt event handlers and the probe threads.     *)
(***************************************************************************)
EXTENDS Integers, Sequences, FiniteSets, TLC

(***************************************************************************)
(* Bounds of the model.                                                    *)
(***************************************************************************)
\* threads one QServerState object may start (creation, refresh, resume)
MaxLaunch == 3
\* the same, where a single server is modelled (SpecMonitor)
MonitorMaxLaunch == 4
\* outcomes fed to a stand-alone PingStatistics in SpecStats
MaxFed == 4
\* outcomes fed to a stand-alone PingStatistics in SpecLoss
MaxTally == 50

(***************************************************************************)
(* Program constants.                                                      *)
(***************************************************************************)
barWidth == 10
barOffset == 10
defaultWidth == 640
\* width of an IEEE-754 double's significand, the type of Python's float
MantissaBits == 53
\* the model writes a significand in digits of this many bits
DigitBits == 13

(***************************************************************************)
(* Python 2 arithmetic.                                                    *)
(***************************************************************************)
PyMin(a, b) == IF a <= b THEN a ELSE b
PyMax(a, b) == IF a >= b THEN a ELSE b

\* int / int of Python 2: the floor of the quotient
PyIntDiv(a, b) == a \div b

RECURSIVE PySum(_)
PySum(s) == IF s = << >> THEN 0 ELSE Head(s) + PySum(Tail(s))

(***************************************************************************)
(* IEEE-754 double arithmetic, as far as                                   *)
(* int((float(a) / float(b)) * 100.0) needs it.  A double is [digs, scale]:*)
(* the integer written by digs in base 2^DigitBits (most significant digit *)
(* first, no leading zero), times 2^-scale.                                *)
(***************************************************************************)
RECURSIVE Pow2(_)
Pow2(n) == IF n = 0 THEN 1 ELSE 2 * Pow2(n - 1)

Base == Pow2(DigitBits)

RECURSIVE BitLen(_)
BitLen(n) == IF n = 0 THEN 0 ELSE 1 + BitLen(n \div 2)

\* number of significant bits of a digit sequence
DigsBitLen(digs) ==
    IF digs = << >> THEN 0 ELSE DigitBits * (Len(digs) - 1) + BitLen(digs[1])

RECURSIVE StripZeros(_)
StripZeros(digs) ==
    IF digs # << >> /\ Head(digs) = 0 THEN StripZeros(Tail(digs)) ELSE digs

RECURSIVE DigsToNat(_)
DigsToNat(digs) ==
    IF digs = << >> THEN 0
    ELSE Base * DigsToNat(SubSeq(digs, 1, Len(digs) - 1)) + digs[Len(digs)]

\* digs + 1
RECURSIVE IncDigs(_)
IncDigs(digs) ==
    IF digs = << >> THEN << 1 >>
    ELSE IF digs[Len(digs)] < Base - 1
         THEN SubSeq(digs, 1, Len(digs) - 1) \o << digs[Len(digs)] + 1 >>
         ELSE IncDigs(SubSeq(digs, 1, Len(digs) - 1)) \o << 0 >>

\* digs * m + c over the first i digits, m and c below Base
RECURSIVE MulCarry(_, _, _, _)
MulCarry(digs, i, m, c) ==
    IF i = 0 THEN (IF c = 0 THEN << >> ELSE << c >>)
    ELSE LET t == digs[i] * m + c
         IN  MulCarry(digs, i - 1, m, t \div Base) \o << t % Base >>

\* digs shifted right by k bits, 1 <= k <= DigitBits
ShiftRight(digs, k) ==
    StripZeros([i \in 1..Len(digs) |->
        (digs[i] \div Pow2(k)) +
        (IF i > 1 THEN (digs[i - 1] % Pow2(k)) * Pow2(DigitBits - k) ELSE 0)])

\* round-to-nearest-even of [digs, scale] to MantissaBits significant bits;
\* sticky: the exact value has non-zero bits below those of digs
RoundDouble(digs, scale, sticky) ==
    LET k == DigsBitLen(digs) - MantissaBits
    IN  IF k <= 0 THEN [digs |-> digs, scale |-> scale]
        ELSE LET kept == ShiftRight(digs, k)
                 dropped == digs[Len(digs)] % Pow2(k)
                 half == Pow2(k - 1)
                 up == \/ dropped > half
                       \/ dropped = half /\ (sticky \/ kept[Len(kept)] % 2 = 1)
                 r == IF up THEN IncDigs(kept) ELSE kept
             IN  IF DigsBitLen(r) > MantissaBits
                 THEN [digs |-> ShiftRight(r, 1), scale |-> scale - k - 1]
                 ELSE [digs |-> r, scale |-> scale - k]

\* the next n base-2^DigitBits digits of r / b, then the remainder
RECURSIVE DivDigits(_, _, _)
DivDigits(r, b, n) ==
    IF n = 0 THEN [digs |-> << >>, rem |-> r]
    ELSE LET d == (r * Base) \div b
             rest == DivDigits((r * Base) % b, b, n - 1)
         IN  [digs |-> << d >> \o rest.digs, rem |-> rest.rem]

RECURSIVE NormShift(_, _)
NormShift(a, b) == IF a >= b THEN 0 ELSE 1 + NormShift(2 * a, b)

\* float(a) / float(b) for integers 0 < a <= b
FloatDiv(a, b) ==
    LET e == NormShift(a, b)
        \* a * 2^e / b is in [1, 2): a leading 1, then the fraction, one digit
        \* more than the significand holds
        n == ((MantissaBits - 1) \div DigitBits) + 1
        q == DivDigits(a * Pow2(e) - b, b, n)
    IN  RoundDouble(<< 1 >> \o q.digs, e + n * DigitBits, q.rem # 0)

\* x * 100.0
FloatMul100(x) ==
    RoundDouble(MulCarry(x.digs, Len(x.digs), 100, 0), x.scale, FALSE)

\* int(x) for x >= 0: truncation
FloatToInt(x) ==
    IF x.scale >= DigsBitLen(x.digs) THEN 0
    ELSE LET whole == SubSeq(x.digs, 1, Len(x.digs) - (x.scale \div DigitBits))
             k == x.scale % DigitBits
         IN  DigsToNat(IF k = 0 THEN whole ELSE ShiftRight(whole, k))

\* int((float(lossCount) / float(total)) * 100.0), 0 <= lossCount <= total
PyLossPercent(lossCount, total) ==
    IF lossCount = 0 THEN 0
    ELSE FloatToInt(FloatMul100(FloatDiv(lossCount, total)))

(***************************************************************************)
(* PingThread.  The thread's environment is what platform.system(),        *)
(* subprocess.Popen and the ping command give it: env.isWindows,           *)
(* env.popenRaises, and env.stdout, a sequence of tokens << kind, n >> of  *)
(* the command's output (n is the number a "digits" token writes).         *)
(***************************************************************************)
Tok(kind) == << kind, 0 >>
Digits(n) == << "digits", n >>

\* Windows ping, a reply: "Reply from ...: bytes=32 time=<n>ms TTL=57"
ReplyStdout(n) ==
    << Tok("Reply"), Tok("bytes="), Digits(32), Tok(" "), Tok("time="),
       Digits(n), Tok("ms"), Tok(" "), Tok("TTL="), Digits(57) >>
\* Windows ping, a reply in under a millisecond: "... time<1ms TTL=57"
FastReplyStdout ==
    << Tok("Reply"), Tok("bytes="), Digits(32), Tok(" "), Tok("time<"),
       Digits(1), Tok("ms"), Tok(" "), Tok("TTL="), Digits(57) >>
TimedOutStdout == << Tok("Request timed out.") >>
UnreachableStdout == << Tok("Destination host unreachable.") >>
GarbageStdout == << Tok("time="), Tok("ms"), Tok("time="), Digits(3), Tok(" "), Tok("ms") >>

ProbeEnv(isWindows, popenRaises, stdout) ==
    [isWindows |-> isWindows, popenRaises |-> popenRaises, stdout |-> stdout]

\* PingThread.__init__ followed by start(): a live thread, time = 0
\* (seq numbers the threads of one QServerState in launch order; waitedFor
\* tells that a stop() found the thread running and waited for it)
PingThread(seq) == [alive |-> TRUE, time |-> 0, seq |-> seq, waitedFor |-> FALSE]

\* re.match('.*time=([0-9]+)ms.*', stdout, re.DOTALL): the places where
\* "time=", a run of digits and "ms" follow one another; the greedy .* takes
\* the last of them
TimeMatches(stdout) ==
    {i \in 1..(Len(stdout) - 2) : /\ stdout[i] = Tok("time=")
                                  /\ stdout[i + 1][1] = "digits"
                                  /\ stdout[i + 2] = Tok("ms")}

SetMax(S) == CHOOSE x \in S : \A y \in S : y <= x

\* self.time when run() has ended, normally or by an exception
run(t, env) ==
    IF ~env.isWindows
    THEN \* subprocess.STARTUPINFO exists on Windows only: AttributeError
         [t EXCEPT !.alive = FALSE]
    ELSE IF env.popenRaises
    THEN \* Popen raises (no ping command, no resources): the thread dies
         [t EXCEPT !.alive = FALSE]
    ELSE IF TimeMatches(env.stdout) # {}
    THEN [t EXCEPT !.alive = FALSE,
                   !.time = env.stdout[SetMax(TimeMatches(env.stdout)) + 1][2]]
    ELSE [t EXCEPT !.alive = FALSE, !.time = -1]

\* Thread.join(): returns when the thread has ended; env is what the thread
\* meets if it is still running
join(t, env) == IF t.alive THEN run(t, env) ELSE t

(***************************************************************************)
(* PingStatistics.                                                         *)
(***************************************************************************)
PingStatistics ==
    [min |-> 0, max |-> 0, avg |-> 0, lossCount |-> 0, lossPercent |-> 0,
     pings |-> << >>]

\* update with self.max = min(self.max, ping)
updateMaxFromMin(s, ping) ==
    LET s1 == IF Len(s.pings) > 0
              THEN IF ping >= 0
                   THEN [s EXCEPT !.min = PyMin(s.min, ping),
                                  !.max = PyMin(s.max, ping),
                                  !.avg = PyIntDiv(PySum(s.pings), Len(s.pings))]
                   ELSE s
              ELSE [s EXCEPT !.min = ping, !.max = ping, !.avg = ping]
        s2 == IF ping >= 0
              THEN [s1 EXCEPT !.pings = Append(@, ping)]
              ELSE [s1 EXCEPT !.lossCount = @ + 1]
    IN  IF Len(s2.pings) > 0 \/ s2.lossCount > 0
        THEN [s2 EXCEPT !.lossPercent =
                 PyLossPercent(s2.lossCount, Len(s2.pings) + s2.lossCount)]
        ELSE s2

\* update that takes a ping of 0 for a lost one
updateDropsZero(s, ping) ==
    LET s1 == IF Len(s.pings) > 0
              THEN IF ping >= 0
                   THEN [s EXCEPT !.min = PyMin(s.min, ping),
                                  !.max = PyMax(s.max, ping),
                                  !.avg = PyIntDiv(PySum(s.pings), Len(s.pings))]
                   ELSE s
              ELSE [s EXCEPT !.min = ping, !.max = ping, !.avg = ping]
        s2 == IF ping > 0
              THEN [s1 EXCEPT !.pings = Append(@, ping)]
              ELSE [s1 EXCEPT !.lossCount = @ + 1]
    IN  IF Len(s2.pings) > 0 \/ s2.lossCount > 0
        THEN [s2 EXCEPT !.lossPercent =
                 PyLossPercent(s2.lossCount, Len(s2.pings) + s2.lossCount)]
        ELSE s2

\* update that starts from the first outcome, lost or not, and not from
\* the first latency
updateFromFirstOutcome(s, ping) ==
    LET s1 == IF Len(s.pings) > 0 \/ s.lossCount > 0
              THEN IF ping >= 0
                   THEN [s EXCEPT !.min = PyMin(s.min, ping),
                                  !.max = PyMax(s.max, ping),
                                  !.avg = IF Len(s.pings) > 0
                                          THEN PyIntDiv(PySum(s.pings), Len(s.pings))
                                          ELSE ping]
                   ELSE s
              ELSE [s EXCEPT !.min = ping, !.max = ping, !.avg = ping]
        s2 == IF ping >= 0
              THEN [s1 EXCEPT !.pings = Append(@, ping)]
              ELSE [s1 EXCEPT !.lossCount = @ + 1]
    IN  IF Len(s2.pings) > 0 \/ s2.lossCount > 0
        THEN [s2 EXCEPT !.lossPercent =
                 PyLossPercent(s2.lossCount, Len(s2.pings) + s2.lossCount)]
        ELSE s2

update(s, ping) ==
    LET s1 == IF Len(s.pings) > 0
              THEN IF ping >= 0
                   THEN [s EXCEPT !.min = PyMin(s.min, ping),
                                  !.max = PyMax(s.max, ping),
                                  !.avg = PyIntDiv(PySum(s.pings), Len(s.pings))]
                   ELSE s
              ELSE [s EXCEPT !.min = ping, !.max = ping, !.avg = ping]
        s2 == IF ping >= 0
              THEN [s1 EXCEPT !.pings = Append(@, ping)]
              ELSE [s1 EXCEPT !.lossCount = @ + 1]
    IN  IF Len(s2.pings) > 0 \/ s2.lossCount > 0
        THEN [s2 EXCEPT !.lossPercent =
                 PyLossPercent(s2.lossCount, Len(s2.pings) + s2.lossCount)]
        ELSE s2

(***************************************************************************)
(* QServerState.  timerActive is self._timer.isActive(); stray counts the  *)
(* threads the object started, dropped its reference to and that still     *)
(* run; launched counts the threads it started.                            *)
(***************************************************************************)
maxGraphPings(width) == PyIntDiv(width - barOffset - barWidth * 2, barWidth)

startPingThread(m) ==
    [m EXCEPT !.pingThread = PingThread(m.launched + 1),
              !.launched = @ + 1,
              !.stray = @ + (IF m.pingThread.alive THEN 1 ELSE 0)]

\* QServerState.__init__
QServerState ==
    [pingStats |-> PingStatistics, graphPings |-> << >>,
     pingThread |-> PingThread(1), launched |-> 1, stray |-> 0,
     timerActive |-> TRUE]

\* what a slot of the registry holds before any QServerState is made for it
NoServerState ==
    [pingStats |-> PingStatistics, graphPings |-> << >>,
     pingThread |-> [alive |-> FALSE, time |-> 0, seq |-> 0,
                     waitedFor |-> FALSE],
     launched |-> 0, stray |-> 0, timerActive |-> FALSE]

\* stop without self._timer.stop()
stopKeepsTimer(m, env) == [m EXCEPT !.pingThread = join(@, env)]

stop(m, env) ==
    [m EXCEPT !.timerActive = FALSE, !.pingThread = join(@, env)]

\* resume without self.startPingThread()
resumeKeepsThread(m) == [m EXCEPT !.timerActive = TRUE]

\* resume that starts over with fresh statistics and an empty graph
resumeResets(m) ==
    startPingThread([m EXCEPT !.timerActive = TRUE,
                              !.pingStats = PingStatistics,
                              !.graphPings = << >>])

resume(m) == startPingThread([m EXCEPT !.timerActive = TRUE])

\* remove that waits for the thread and leaves the timer running
removeKeepsTimer(m, env) == [m EXCEPT !.pingThread = join(@, env)]

\* remove without self.stop()
removeNoStop(m, env) == m

\* remove: stop(), then the widget is taken from its parent
remove(m, env) == stop(m, env)

\* refresh dropping the oldest sample of a full graph, not all of them
refreshSliding(m, width) ==
    IF m.pingThread.alive THEN m
    ELSE LET curPing == m.pingThread.time
             stats == update(m.pingStats, curPing)
             graph == IF Len(m.graphPings) >= maxGraphPings(width)
                      THEN Tail(m.graphPings) ELSE m.graphPings
         IN  startPingThread([m EXCEPT !.pingStats = stats,
                                       !.graphPings = Append(graph, curPing)])

\* refresh that starts a thread also when the last one still runs
refreshOverlaps(m, width) ==
    IF m.pingThread.alive THEN startPingThread(m)
    ELSE LET curPing == m.pingThread.time
             stats == update(m.pingStats, curPing)
             graph == IF Len(m.graphPings) >= maxGraphPings(width)
                      THEN << >> ELSE m.graphPings
         IN  startPingThread([m EXCEPT !.pingStats = stats,
                                       !.graphPings = Append(graph, curPing)])

\* refresh without self.startPingThread()
refreshNoRestart(m, width) ==
    IF m.pingThread.alive THEN m
    ELSE LET curPing == m.pingThread.time
             stats == update(m.pingStats, curPing)
             graph == IF Len(m.graphPings) >= maxGraphPings(width)
                      THEN << >> ELSE m.graphPings
         IN  [m EXCEPT !.pingStats = stats,
                       !.graphPings = Append(graph, curPing)]

refresh(m, width) ==
    IF m.pingThread.alive THEN m
    ELSE LET curPing == m.pingThread.time
             stats == update(m.pingStats, curPing)
             graph == IF Len(m.graphPings) >= maxGraphPings(width)
                      THEN << >> ELSE m.graphPings
         IN  startPingThread([m EXCEPT !.pingStats = stats,
                                       !.graphPings = Append(graph, curPing)])

(***************************************************************************)
(* DotoPinguin.  st is the part of the application stopUpdate works on:    *)
(* st.servers maps a server index to its QServerState, st.serversPaused is *)
(* the flag, st.stopped records for which objects stop() has returned with *)
(* no resume() since.                                                      *)
(***************************************************************************)
\* after, the object m once stop() has returned on it, with the thread that
\* stop() found running marked as waited for
WaitedFor(m, after) ==
    IF m.pingThread.alive /\ after.pingThread.seq = m.pingThread.seq
    THEN [after EXCEPT !.pingThread.waitedFor = TRUE]
    ELSE after

stopUpdateStep(st, key, env) ==
    IF st.serversPaused
    THEN [st EXCEPT !.servers[key] = resume(@),
                    !.stopped[key] = FALSE,
                    !.serversPaused = FALSE]
    ELSE [st EXCEPT !.servers[key] = WaitedFor(@, stop(@, env)),
                    !.stopped[key] = TRUE,
                    !.serversPaused = TRUE]

\* the loop of stopUpdate over displayedServers.iteritems(), in the order
\* the dictionary yields its keys
RECURSIVE stopUpdate(_, _, _)
stopUpdate(st, order, envs) ==
    IF order = << >> THEN st
    ELSE stopUpdate(stopUpdateStep(st, Head(order), envs[Head(order)]),
                    Tail(order), envs)

\* the orders in which a dictionary may yield the keys S
KeyOrders(S) ==
    {o \in [1..Cardinality(S) -> S] : \A i, j \in DOMAIN o : o[i] = o[j] => i = j}

(***************************************************************************)
(* State.                                                                  *)
(***************************************************************************)
VARIABLES
    displayedServers,   \* keys of DotoPinguin.displayedServers
    serverState,        \* per server index, the QServerState last made for it
    serversPaused,      \* DotoPinguin.serversPaused
    stopButtonShown,    \* stopButton.isVisible()
    layoutWidth,        \* mainLayout.geometry().width()
    applied,            \* per server index, the threads whose result refresh applied
    stopped,            \* per server index, stop() returned, no resume() since
    ps,                 \* a PingStatistics object on its own
    fed,                \* the pings passed to ps.update
    tally               \* how many pings ps.update got, and how many were < 0

vars == << displayedServers, serverState, serversPaused, stopButtonShown,
           layoutWidth, applied, stopped, ps, fed, tally >>
appVars == << displayedServers, serverState, serversPaused, stopButtonShown,
              layoutWidth, applied, stopped >>
statVars == << ps, fed, tally >>

\* the indices into DOTO_SERVERS the model lets the user select
AllServers == {0, 1}

\* environments of a probe thread
AppEnvs == {ProbeEnv(TRUE, FALSE, ReplyStdout(7))}
MonitorEnvs ==
    {ProbeEnv(TRUE, FALSE, out) :
        out \in {ReplyStdout(5), ReplyStdout(9), FastReplyStdout, TimedOutStdout,
                 UnreachableStdout, GarbageStdout}}
    \cup {ProbeEnv(TRUE, TRUE, << >>), ProbeEnv(FALSE, FALSE, << >>)}

\* widths the user gives the layout: the narrow ones stand for windows
\* narrow enough for the short buffers of the model to fill them
MonitorWidths == {defaultWidth, 60, 50, 40}

\* pings passed to a PingStatistics on its own
FedPings == {-1, 0, 4, 9}
TallyPings == {-1, 7}

Init ==
    /\ displayedServers = {}
    /\ serverState = [i \in AllServers |-> NoServerState]
    /\ serversPaused = FALSE
    /\ stopButtonShown = FALSE
    /\ layoutWidth = defaultWidth
    /\ applied = [i \in AllServers |-> << >>]
    /\ stopped = [i \in AllServers |-> FALSE]
    /\ ps = PingStatistics
    /\ fed = << >>
    /\ tally = [total |-> 0, lost |-> 0]

(***************************************************************************)
(* Actions.                                                                *)
(***************************************************************************)
\* DotoPinguin.checkboxStateChange(checkbox, serverIdx); env is what the
\* joined thread meets if it still runs
checkboxStateChange(serverIdx, env) ==
    /\ IF serverIdx \in displayedServers
       THEN /\ serverState' = [serverState EXCEPT ![serverIdx] =
                                  WaitedFor(@, remove(@, env))]
            /\ stopped' = [stopped EXCEPT ![serverIdx] = TRUE]
            /\ displayedServers' = displayedServers \ {serverIdx}
            /\ stopButtonShown' = FALSE
            /\ UNCHANGED applied
       ELSE /\ serverState' = [serverState EXCEPT ![serverIdx] = QServerState]
            /\ stopped' = [stopped EXCEPT ![serverIdx] = FALSE]
            /\ applied' = [applied EXCEPT ![serverIdx] = << >>]
            /\ displayedServers' = displayedServers \cup {serverIdx}
            /\ stopButtonShown' = TRUE
    /\ layoutWidth' = defaultWidth
    /\ UNCHANGED << serversPaused, statVars >>

\* the stop button is clicked: DotoPinguin.stopUpdate
StopButtonClicked(order, envs, maxLaunch) ==
    /\ stopButtonShown
    /\ LET st == stopUpdate([servers |-> serverState, stopped |-> stopped,
                             serversPaused |-> serversPaused], order, envs)
       IN  /\ \A i \in displayedServers : st.servers[i].launched <= maxLaunch
           /\ serverState' = st.servers
           /\ stopped' = st.stopped
           /\ serversPaused' = st.serversPaused
    /\ UNCHANGED << displayedServers, stopButtonShown, layoutWidth, applied,
                    statVars >>

\* self._timer times out: QServerState.refresh (then update(), a repaint)
TimerTimeout(serverIdx, maxLaunch) ==
    /\ serverState[serverIdx].timerActive
    /\ LET m == refresh(serverState[serverIdx], layoutWidth)
       IN  /\ m.launched <= maxLaunch
           /\ serverState' = [serverState EXCEPT ![serverIdx] = m]
           /\ applied' = [applied EXCEPT ![serverIdx] =
                 IF serverState[serverIdx].pingThread.alive THEN @
                 ELSE Append(@, [seq |-> serverState[serverIdx].pingThread.seq,
                                 time |-> serverState[serverIdx].pingThread.time,
                                 waitedFor |->
                                     serverState[serverIdx].pingThread.waitedFor])]
    /\ UNCHANGED << displayedServers, serversPaused, stopButtonShown,
                    layoutWidth, stopped, statVars >>

\* the thread self.pingThread refers to ends: PingThread.run
PingThreadEnds(serverIdx, env) ==
    /\ serverState[serverIdx].pingThread.alive
    /\ serverState' = [serverState EXCEPT ![serverIdx].pingThread = run(@, env)]
    /\ UNCHANGED << displayedServers, serversPaused, stopButtonShown,
                    layoutWidth, applied, stopped, statVars >>

\* a thread no QServerState refers to any more ends
StrayThreadEnds(serverIdx) ==
    /\ serverState[serverIdx].stray > 0
    /\ serverState' = [serverState EXCEPT ![serverIdx].stray = @ - 1]
    /\ UNCHANGED << displayedServers, serversPaused, stopButtonShown,
                    layoutWidth, applied, stopped, statVars >>

\* the user resizes the window: the layout gets another width
ResizeEvent(width) ==
    /\ layoutWidth' = width
    /\ layoutWidth' # layoutWidth
    /\ UNCHANGED << displayedServers, serverState, serversPaused,
                    stopButtonShown, applied, stopped, statVars >>

\* PingStatistics.update(ping) on the object on its own
Feed(ping) ==
    /\ Len(fed) < MaxFed
    /\ ps' = update(ps, ping)
    /\ fed' = Append(fed, ping)
    /\ tally' = [total |-> tally.total + 1,
                 lost |-> tally.lost + (IF ping < 0 THEN 1 ELSE 0)]
    /\ UNCHANGED appVars

\* the same, with the pings counted and not kept
FeedTally(ping) ==
    /\ tally.total < MaxTally
    /\ ps' = update(ps, ping)
    /\ tally' = [total |-> tally.total + 1,
                 lost |-> tally.lost + (IF ping < 0 THEN 1 ELSE 0)]
    /\ UNCHANGED << fed, appVars >>

\* the environments that matter to a join on server i's thread: one is
\* enough when the thread has ended
JoinEnvs(i, envs) ==
    IF serverState[i].pingThread.alive THEN envs ELSE {CHOOSE env \in envs : TRUE}

(***************************************************************************)
(* Specifications.                                                         *)
(***************************************************************************)
\* the application with the servers of AllServers, the window left at its width
Next ==
    \/ \E i \in AllServers : \E env \in JoinEnvs(i, AppEnvs) :
            checkboxStateChange(i, env)
    \/ \E order \in KeyOrders(displayedServers) :
          \E envs \in [displayedServers -> AppEnvs] :
            /\ \A i \in displayedServers : envs[i] \in JoinEnvs(i, AppEnvs)
            /\ StopButtonClicked(order, envs, MaxLaunch)
    \/ \E i \in AllServers : TimerTimeout(i, MaxLaunch)
    \/ \E i \in AllServers, env \in AppEnvs : PingThreadEnds(i, env)
    \/ \E i \in AllServers : StrayThreadEnds(i)

Spec == Init /\ [][Next]_vars

\* the application with server 0 alone, every kind of probe result and
\* every kind of width
MonitorNext ==
    \/ \E env \in JoinEnvs(0, MonitorEnvs) : checkboxStateChange(0, env)
    \/ \E order \in KeyOrders(displayedServers) :
          \E envs \in [displayedServers -> MonitorEnvs] :
            /\ \A i \in displayedServers : envs[i] \in JoinEnvs(i, MonitorEnvs)
            /\ StopButtonClicked(order, envs, MonitorMaxLaunch)
    \/ TimerTimeout(0, MonitorMaxLaunch)
    \/ \E env \in MonitorEnvs : PingThreadEnds(0, env)
    \/ StrayThreadEnds(0)
    \/ \E w \in MonitorWidths : ResizeEvent(w)

SpecMonitor == Init /\ [][MonitorNext]_vars

\* a PingStatistics on its own, fed every short sequence of pings
StatsNext == \E ping \in FedPings : Feed(ping)

SpecStats == Init /\ [][StatsNext]_vars

\* a PingStatistics on its own, fed long runs of two kinds of ping
LossNext == \E ping \in TallyPings : FeedTally(ping)

SpecLoss == Init /\ [][LossNext]_vars

\* the application under the scheduling the program relies on: a running
\* QTimer keeps timing out, and every ping process, hence every thread,
\* comes to an end
SpecLive ==
    Init /\ [][Next]_vars
         /\ \A i \in AllServers :
               /\ WF_vars(TimerTimeout(i, MaxLaunch))
               /\ WF_vars(\E env \in AppEnvs : PingThreadEnds(i, env))
               /\ WF_vars(StrayThreadEnds(i))

(***************************************************************************)
(* Properties.                                                             *)
(***************************************************************************)
\* threads started by server i's QServerState that have not ended
InFlight(i) ==
    serverState[i].stray + (IF serverState[i].pingThread.alive THEN 1 ELSE 0)

\* the pings >= 0 of a sequence of pings, in order
Latencies(pings) == SelectSeq(pings, LAMBDA p : p >= 0)

\* C1: in every reachable state every Host Monitor has at most one probe in
\* flight: at most one of the threads it started has not ended.
C1_AtMostOneProbeInFlight == \A i \in AllServers : InFlight(i) <= 1

\* C2: once stop() (or remove()) has returned on a monitor, no step changes
\* its statistics or its rolling buffer until resume() is called on it.
C2_NoMutationAfterStop ==
    [][\A i \in AllServers :
         (stopped[i] /\ stopped'[i]) =>
            /\ serverState'[i].pingStats = serverState[i].pingStats
            /\ serverState'[i].graphPings = serverState[i].graphPings]_vars

\* C2 witness: stop() has returned on a displayed monitor that had applied an
\* outcome, and the probe it joined has ended with a result nobody applied.
C2_Witness ==
    \E i \in displayedServers :
        /\ stopped[i]
        /\ Len(applied[i]) > 0
        /\ ~serverState[i].pingThread.alive
        /\ serverState[i].pingThread.seq > applied[i][Len(applied[i])].seq

\* C3: after each update of a sequence of Latency outcomes, avg is the exact
\* arithmetic mean of all the values supplied, the last one included.
C3_AvgIsExactMean ==
    (fed # << >> /\ Latencies(fed) = fed) =>
        ps.avg * Len(fed) = PySum(fed)

\* C4: after every update, whatever the order of Latency and Lost outcomes,
\* min <= avg <= max once a Latency outcome has been recorded.
C4_MinAvgMax ==
    Latencies(fed) # << >> => (ps.min <= ps.avg /\ ps.avg <= ps.max)

\* C4 witness: a Lost outcome between three latencies that leave avg
\* strictly between min and max.
C4_Witness ==
    /\ Len(Latencies(fed)) >= 3
    /\ \E j \in 2..(Len(fed) - 1) : fed[j] < 0
    /\ ps.min < ps.avg
    /\ ps.avg < ps.max

\* C5: after N outcomes, L of them Lost, lossPercent is floor(100 * L / N),
\* and it is 0 on a fresh PingStatistics.
C5_LossPercentIsFloor ==
    IF tally.total = 0 THEN ps.lossPercent = 0
    ELSE ps.lossPercent = (100 * tally.lost) \div tally.total

\* C6: a Lost outcome adds one to lossCount and leaves min, max and avg as
\* they were, also when no Latency outcome has been recorded yet.
C6_LostLeavesMinMaxAvg ==
    [][Feed(-1) => /\ ps'.lossCount = ps.lossCount + 1
                   /\ ps'.min = ps.min
                   /\ ps'.max = ps.max
                   /\ ps'.avg = ps.avg]_vars

\* C7: in every reachable state the rolling buffer of a displayed monitor
\* holds at most maxGraphPings() elements, also after a resize.
C7_BufferWithinCapacity ==
    \A i \in displayedServers :
        Len(serverState[i].graphPings) <= maxGraphPings(layoutWidth)

\* a step in which server i's refresh applied a thread's result
Applies(i) == Len(applied'[i]) = Len(applied[i]) + 1

\* C8: a refresh that appends to a buffer holding exactly capacity elements
\* (capacity >= 1) leaves a buffer holding the new outcome alone; one that
\* appends to a buffer holding fewer leaves the old contents, in order,
\* followed by the new outcome.
C8_AppendResetsWhenFull ==
    [][\A i \in AllServers :
         Applies(i) =>
            LET old == serverState[i].graphPings
                new == serverState'[i].graphPings
                cur == applied'[i][Len(applied'[i])].time
                capacity == maxGraphPings(layoutWidth)
            IN  /\ (Len(old) = capacity /\ capacity >= 1) => new = << cur >>
                /\ Len(old) < capacity => new = old \o << cur >>]_vars

\* C8 witness: a buffer that was reset: it holds one element, the last of at
\* least three outcomes applied, under a capacity of at least 2.
C8_Witness ==
    /\ 0 \in displayedServers
    /\ Len(applied[0]) >= 3
    /\ maxGraphPings(layoutWidth) >= 2
    /\ serverState[0].graphPings = << applied[0][Len(applied[0])].time >>

\* the probe yields output the pattern finds a latency in
Parseable(env) ==
    env.isWindows /\ ~env.popenRaises /\ TimeMatches(env.stdout) # {}

\* C9: a probe that yields no parseable latency, by a timeout, an unreachable
\* host, unparseable output or a failure in the thread, ends with time = -1.
C9_FailuresAreLost ==
    [][\A i \in AllServers : \A env \in MonitorEnvs :
         (PingThreadEnds(i, env) /\ ~Parseable(env)) =>
            serverState'[i].pingThread.time = -1]_vars

\* C10: when stopUpdate returns, every tracked monitor is paused (timer
\* stopped, no probe in flight) or every tracked monitor is running.
C10_ToggleIsUniform ==
    [][\A order \in KeyOrders(displayedServers) :
       \A envs \in [displayedServers -> AppEnvs] :
         StopButtonClicked(order, envs, MaxLaunch) =>
            \/ \A i \in displayedServers :
                  ~serverState'[i].timerActive /\ InFlight(i)' = 0
            \/ \A i \in displayedServers : serverState'[i].timerActive]_vars

C12_PauseResumeKeepData ==
    [][\A i \in displayedServers :
         LET kept == /\ serverState'[i].pingStats = serverState[i].pingStats
                     /\ serverState'[i].graphPings = serverState[i].graphPings
         IN  /\ (\E order \in KeyOrders(displayedServers) :
                  \E envs \in [displayedServers -> AppEnvs] :
                     StopButtonClicked(order, envs, MaxLaunch)) => kept
             /\ (i \in displayedServers' /\ (stopped[i] \/ stopped'[i]))
                    => kept]_vars

\* C12 witness: a monitor that had applied an outcome runs again after a
\* pause: the thread resume() started is at least the second one after the
\* last one applied, and the statistics still hold that outcome.
C12_Witness ==
    \E i \in displayedServers :
        /\ ~stopped[i]
        /\ ~serversPaused
        /\ serverState[i].timerActive
        /\ Len(applied[i]) > 0
        /\ serverState[i].pingThread.seq >= applied[i][Len(applied[i])].seq + 2
        /\ serverState[i].pingStats.pings # << >>

\* C13: once a Latency outcome has been supplied, min is the least and max
\* the greatest of the Latency values supplied so far, and while only one
\* has been supplied, whatever Lost outcomes came before or after it,
\* min = max = avg = that value.
C13_MinMaxOfLatencies ==
    LET lat == Latencies(fed)
    IN  lat # << >> =>
            /\ \E j \in 1..Len(lat) : ps.min = lat[j]
            /\ \A j \in 1..Len(lat) : ps.min <= lat[j]
            /\ \E j \in 1..Len(lat) : ps.max = lat[j]
            /\ \A j \in 1..Len(lat) : ps.max >= lat[j]
            /\ Len(lat) = 1 => (ps.avg = lat[1] /\ ps.min = lat[1]
                                               /\ ps.max = lat[1])

\* C13 witness: a Lost outcome came first, then latencies whose least and
\* greatest differ, the least not being the first of them.
C13_Witness ==
    /\ fed # << >>
    /\ fed[1] < 0
    /\ Len(Latencies(fed)) >= 2
    /\ ps.min < Latencies(fed)[1]
    /\ ps.min < ps.max

\* C14: whenever stop() has returned on a monitor and no resume() followed,
\* its timer is cancelled and none of the threads it ever started still runs.
C14_StopJoinsEveryThread ==
    \A i \in AllServers :
        stopped[i] => (~serverState[i].timerActive /\ InFlight(i) = 0)

\* C15: the outcomes a monitor applied are those of threads launched in
\* that order, each thread at most once: along the applied outcomes the
\* launch numbers strictly increase.
C15_AppliedInLaunchOrder ==
    \A i \in AllServers :
        \A j, k \in 1..Len(applied[i]) :
            j < k => applied[i][j].seq < applied[i][k].seq

\* C15 witness: outcomes applied before and after a thread whose outcome
\* was not applied, and the thread launched last has ended.
C15_Witness ==
    /\ Len(applied[0]) >= 2
    /\ ~serverState[0].pingThread.alive
    /\ \E j \in 1..(Len(applied[0]) - 1) :
           applied[0][j + 1].seq > applied[0][j].seq + 1

\* C16: a timer tick that finds the monitor's thread running changes
\* nothing: no thread is started, statistics, buffer and the running thread
\* stay as they are.  A tick that finds the thread ended applies that
\* thread's time, once, to the statistics (as a latency if >= 0, as a loss
\* otherwise) and as the last element of the buffer, and starts exactly one
\* new thread.
C16_TickSkipsOrAppliesAndLaunches ==
    [][TimerTimeout(0, MonitorMaxLaunch) =>
         LET m == serverState[0]
             n == serverState'[0]
             t == m.pingThread
         IN  IF t.alive
             THEN n = m /\ applied' = applied
             ELSE /\ n.pingStats.pings =
                        (IF t.time >= 0 THEN Append(m.pingStats.pings, t.time)
                         ELSE m.pingStats.pings)
                  /\ n.pingStats.lossCount =
                        m.pingStats.lossCount + (IF t.time >= 0 THEN 0 ELSE 1)
                  /\ n.graphPings # << >>
                  /\ n.graphPings[Len(n.graphPings)] = t.time
                  /\ Len(n.graphPings) <= Len(m.graphPings) + 1
                  /\ Applies(0)
                  /\ applied'[0][Len(applied'[0])].seq = t.seq
                  /\ n.launched = m.launched + 1
                  /\ n.pingThread.alive
                  /\ n.pingThread.seq = n.launched
                  /\ InFlight(0)' = InFlight(0) + 1]_vars

\* C16 witness: a tick has applied a lost and a latency outcome and started
\* a thread, which runs alone while the timer is active, so that the next
\* tick is a skip.
C16_Witness ==
    /\ 0 \in displayedServers
    /\ serverState[0].timerActive
    /\ serverState[0].pingThread.alive
    /\ serverState[0].stray = 0
    /\ serverState[0].pingStats.lossCount > 0
    /\ serverState[0].pingStats.pings # << >>
    /\ serverState[0].pingThread.seq = applied[0][Len(applied[0])].seq + 1

\* C17: the result of a thread that was running when stop() was called on
\* its monitor is never applied to the statistics or the buffer, neither
\* while the monitor is paused nor after a later resume(): no applied
\* outcome is that of a thread stop() waited for.
C17_WaitedForNeverApplied ==
    \A i \in AllServers :
        \A j \in 1..Len(applied[i]) : ~applied[i][j].waitedFor

\* C17 witness: stop() found the thread of a displayed monitor running and
\* waited for it; the thread has ended with a latency, the monitor had
\* applied an earlier outcome, and the other monitor is running.
C17_Witness ==
    \E i \in displayedServers :
        /\ stopped[i]
        /\ serverState[i].pingThread.waitedFor
        /\ ~serverState[i].pingThread.alive
        /\ serverState[i].pingThread.time > 0
        /\ Len(applied[i]) > 0
        /\ \E k \in displayedServers \ {i} : serverState[k].timerActive

\* C18: the registry holds one monitor per selected host, and the monitor of
\* a host that is not in the registry, if one was ever made, has been
\* stopped (timer cancelled, its probe thread joined) and stays so whatever
\* is selected or toggled later: no step but the creation of a new monitor
\* for that host changes it.
C18_DeselectedStaysStopped ==
    /\ displayedServers \subseteq AllServers
    /\ \A i \in AllServers \ displayedServers :
          /\ ~serverState[i].timerActive
          /\ ~serverState[i].pingThread.alive
          /\ serverState[i] # NoServerState => stopped[i]
    /\ \A i \in displayedServers : serverState[i] # NoServerState

\* C18 witness: a host was deselected, its monitor is stopped; after that
\* the other host was selected and its monitor paused and resumed by the
\* stop button.
C18_Witness ==
    \E i \in AllServers \ displayedServers :
        /\ stopped[i]
        /\ serverState[i].launched >= 1
        /\ stopButtonShown
        /\ \E k \in displayedServers :
              /\ serverState[k].timerActive
              /\ serverState[k].launched >= 2
              /\ applied[k] = << >>

\* server i's monitor is in the registry with its timer active
Running(i) == i \in displayedServers /\ serverState[i].timerActive

AppliedTimes(i) == [j \in 1..Len(applied[i]) |-> applied[i][j].time]

\* C20: for every monitor, lossCount is the number of lost outcomes
\* applied, the latency history holds the latencies applied, in order, the
\* two together count every outcome applied, and the buffer holds the last
\* outcomes applied, in order: as many as it has elements, never more than
\* were applied, and the last one applied whenever one was.
C20_CountsMatchApplied ==
    \A i \in AllServers :
        LET times == AppliedTimes(i)
            stats == serverState[i].pingStats
            graph == serverState[i].graphPings
        IN  /\ stats.lossCount = Len(times) - Len(Latencies(times))
            /\ stats.pings = Latencies(times)
            /\ stats.lossCount + Len(stats.pings) = Len(times)
            /\ Len(graph) <= Len(times)
            /\ graph = SubSeq(times, Len(times) - Len(graph) + 1, Len(times))
            /\ times # << >> => graph # << >>

\* C20 witness: lost and latency outcomes applied, three at least, to a
\* buffer that was reset in between and holds fewer than were applied.
C20_Witness ==
    /\ Len(applied[0]) >= 3
    /\ serverState[0].pingStats.lossCount > 0
    /\ Len(serverState[0].pingStats.pings) >= 2
    /\ Len(serverState[0].graphPings) >= 1
    /\ Len(serverState[0].graphPings) < Len(applied[0])

=============================================================================
